---- MODULE Spec2Model ----
(***************************************************************************)
(* WiFi provisioning: the link manager (wifi_manager.c, in its component   *)
(* and main-tree versions), the transport channel (ws_server.c) and the    *)
(* provisioning coordinator (wifi_provision.c).                            *)
(*                                                                         *)
(* Execution contexts, each a set of actions:                              *)
(*   driver      Drv*        the radio driver producing link outcomes      *)
(*   event loop  Ev*         event_handler + the state callback it calls   *)
(*   httpd       H*, Ws*     handle_ws_req / ws_receive_handle             *)
(*   coordinator Task*       wifi_provision_task, one action per statement *)
(*   scan task   Scan*       scan_task, one action per statement           *)
(*                                                                         *)
(* The specifications share the variables: Spec is the provisioning        *)
(* system built from the component sources; SpecMgr, SpecScan and SpecWs   *)
(* are a link manager, the scan and the transport channel on their own,    *)
(* driven by a caller of their interface; SpecFrame is handle_ws_req on    *)
(* data frames; SpecMsg is the message sink with the scan reply, and       *)
(* SpecCred the sink on credentials of every length; SpecLink is a link    *)
(* manager with the state callback of its coordinator and a caller of      *)
(* wifi_manager_get_ip, SpecDraft the draft manager main/wifi_manager.c,   *)
(* and SpecScanLive the scan with its task scheduled fairly.  A variable a *)
(* specification does not use keeps its initial value.                     *)
(*                                                                         *)
(* Variables whose name is not an identifier of the source are either the  *)
(* environment (the driver, the peers) or history variables that record    *)
(* what happened and are never read by the modelled code.                  *)
(***************************************************************************)
EXTENDS Integers, Sequences, FiniteSets, TLC

VARIABLES
    \* ---- link manager (wifi_manager.c)
    mgr,                \* which manager source is built: "comp" (component),
                        \* "main" (part_002) | "draft" (main/wifi_manager.c)
    sta_connect_count,
    is_sta_connected,
    mode,               \* esp_wifi_get_mode: "STA" | "APSTA"
    \* ---- radio driver and its event loop (environment)
    staLink,            \* "idle" | "connecting" | "connected"
    staCfg,             \* <<ssid, password>> the station is configured with
    evq,                \* events posted to the default event loop, not yet handled
    losses,             \* link losses of an established connection so far
    \* ---- coordinator (wifi_provision.c)
    current_ssid,       \* submission the stored ssid comes from (0: empty);
                        \* in SpecMsg and SpecCred the bytes stored
    current_password,   \* the same for the password
    is_configuring,
    bits,               \* prov_ev_group: subset of {"CONNECTED","FAIL","SUCCESS"}
    pc,                 \* position of wifi_provision_task
    taskBits,           \* its local variable bits
    ip_str,             \* its local variable ip_str: "" | "addr"
    hpc,                \* position of ws_receive_handle in the httpd task
    hsub,               \* submission the handler is storing
    \* ---- transport channel (ws_server.c)
    server_handle,      \* TRUE while the http server runs
    socket_fd,          \* tracked peer, -1 when none
    sendRet,            \* result of the last ws_server_send
    writes,             \* httpd_ws_send_data calls: <<fd, payload>>
    apCfg,              \* access-point configuration set in the driver
    open,               \* sockets of the connections the server holds open
    fpc,                \* position of handle_ws_req on a data frame
    frame,              \* the data frame being handled, as the peer sent it
    ws_pkt_len,         \* ws_pkt.len as reported by the length query
    err,                \* the local err of handle_ws_req
    buf,                \* the receive buffer: its bytes, <<>> when there is none
    hret,               \* result of the last handle_ws_req
    sinkCalls,          \* calls of the message sink: frame, text and len
    \* ---- scan (wifi_manager.c)
    scan_semaphore,     \* TRUE when the binary semaphore is available
    scan_task_handle,   \* 0 = NULL, else the scan task it names
    scanPc,             \* per accepted request: position of its scan_task
    scanRes,            \* per accepted request: what the driver scan produced
    scanRet,            \* result of the last wifi_manager_scan
    delivered,          \* callback invocations: <<request, argument>>
    \* ---- history (never read by the modelled code)
    nsub,               \* submissions received so far
    accepted,           \* submissions for which the handler set is_configuring
    bitSrc,             \* per terminal bit: submission whose attempt raised it
    taskSrc,            \* the same for the bits the task took
    sent,               \* status pushes issued by the coordinator
    opLog,              \* steps of the success handling in progress
    discRun,            \* disconnect events handled since connect / address
    autoRun,            \* automatic attempts issued since connect / address
    failRun,            \* ConnectFailed reports since connect / address
    userCb,             \* states the last link event passed to the user callback
    ipRet,              \* result of the last wifi_manager_get_ip
    gotIpSeen,          \* an address acquisition was handled
    discSinceIp,        \* disconnect events handled since the last one
    connectFrom,        \* link situations wifi_manager_connect was called in
    failRaised,         \* ConnectFailed reports that raised the FAIL bit
    lastPeer,           \* socket of the most recent handshake
    lastMsg,            \* the document ws_receive_handle was last called with
    scanList,           \* the records wifi_scan_handle was last called with
    nmsg,               \* texts handed to ws_receive_handle so far
    nframe,             \* data frames received so far
    nstart,             \* calls of wifi_provision_start_apcfg
    npeer,              \* handshakes performed so far
    ncall               \* calls made by the environment of a single component

mgrVars   == <<mgr, sta_connect_count, is_sta_connected, mode>>
drvVars   == <<staLink, staCfg, evq, losses>>
credVars  == <<current_ssid, current_password>>
evVars    == <<bits, bitSrc>>
taskVars  == <<pc, taskBits, ip_str, taskSrc>>
hVars     == <<hpc, hsub, nsub>>
coordVars == <<credVars, is_configuring, evVars, taskVars, hVars>>
wsVars    == <<server_handle, socket_fd, sendRet, writes>>
scanVars  == <<scan_semaphore, scan_task_handle, scanPc, scanRes, scanRet, delivered>>
runVars   == <<discRun, autoRun, failRun>>
ipVars    == <<gotIpSeen, discSinceIp, connectFrom>>
provHist  == <<accepted, sent, opLog, failRaised, nstart, npeer>>
frameVars == <<open, fpc, frame, ws_pkt_len, err, buf, hret, sinkCalls, nframe>>
msgVars   == <<lastMsg, scanList, nmsg>>
cbVars    == <<userCb, ipRet>>
auxVars   == <<frameVars, lastPeer, apCfg, msgVars, cbVars>>
vars == <<mgrVars, drvVars, coordVars, wsVars, scanVars, runVars, ipVars, provHist, ncall,
          auxVars>>

-----------------------------------------------------------------------------
(* Bounds of the model *)
MaxSub   == 2      \* connect submissions the peer sends
MaxLoss  == 1      \* losses of an established link
MaxStart == 1      \* calls of wifi_provision_start_apcfg
MaxPeer  == 1      \* handshakes performed by peers
MaxWsCall  == 5    \* calls of the channel interface
MaxMgrCall == 4    \* calls of the manager interface
MaxScanCall == 3   \* calls of wifi_manager_scan
MaxLinkCall == 2   \* calls of wifi_manager_connect by the coordinator task

(* Constants of the program *)
max_retry         == 1
MAX_CONNECT_RETRY == 6

Subs       == 1..MaxSub
NoSrc      == -1
Terminal   == {"FAIL", "SUCCESS"}
Min(a, b)  == IF a < b THEN a ELSE b
RetryLimit == IF mgr = "comp" THEN max_retry ELSE MAX_CONNECT_RETRY

-----------------------------------------------------------------------------
(* The radio driver.  An attempt in flight ends in a disconnect event or   *)
(* in an address; an established link can be lost.  Each event carries the *)
(* station configuration it was produced under.                            *)

Ev(kind) == [kind |-> kind, sub |-> staCfg[1]]

\* esp_wifi_connect: starts an attempt unless the station is already busy
EspWifiConnect(link) == IF link = "idle" THEN "connecting" ELSE link

\* esp_wifi_disconnect: an established link always reports the disconnect,
\* an attempt in flight may or may not have got far enough to report one
DisconnectEvents(post) ==
    IF staLink = "connected" \/ (staLink = "connecting" /\ post)
    THEN <<Ev("DISC")>> ELSE <<>>

DrvFail ==
    /\ staLink = "connecting"
    /\ staLink' = "idle"
    /\ evq' = Append(evq, Ev("DISC"))
    /\ UNCHANGED <<staCfg, losses>>
    /\ UNCHANGED <<mgrVars, coordVars, wsVars, scanVars, runVars, ipVars, provHist, ncall>>
    /\ UNCHANGED auxVars

DrvGotIp ==
    /\ staLink = "connecting"
    /\ staLink' = "connected"
    /\ evq' = Append(evq, Ev("GOT_IP"))
    /\ UNCHANGED <<staCfg, losses>>
    /\ UNCHANGED <<mgrVars, coordVars, wsVars, scanVars, runVars, ipVars, provHist, ncall>>
    /\ UNCHANGED auxVars

DrvLoss ==
    /\ staLink = "connected"
    /\ losses < MaxLoss
    /\ losses' = losses + 1
    /\ staLink' = "idle"
    /\ evq' = Append(evq, Ev("DISC"))
    /\ UNCHANGED staCfg
    /\ UNCHANGED <<mgrVars, coordVars, wsVars, scanVars, runVars, ipVars, provHist, ncall>>
    /\ UNCHANGED auxVars

-----------------------------------------------------------------------------
(* wifi_provision.c: internal_wifi_cb, the state callback registered with  *)
(* the manager.  It raises a terminal bit only while configuring.          *)

internal_wifi_cb_Mut(state) ==
    CASE state = "CONNECTED"    -> {"SUCCESS"}
      [] state = "CONNECT_FAIL" -> {"FAIL"}
      [] OTHER                  -> {}

internal_wifi_cb(state) ==
    CASE state = "CONNECTED"    -> IF is_configuring THEN {"SUCCESS"} ELSE {}
      [] state = "CONNECT_FAIL" -> IF is_configuring THEN {"FAIL"} ELSE {}
      [] OTHER                  -> {}

-----------------------------------------------------------------------------
(* wifi_manager.c: event_handler *)

RetriesRemain_Mut == sta_connect_count <= RetryLimit
RetriesRemain     == sta_connect_count < RetryLimit

\* the retry branch calls esp_wifi_connect; part_002 only in client-only mode
RetryConnects == RetriesRemain /\ (mgr = "comp" \/ mode = "STA")

\* the component manager reports ConnectFailed in the else branch; part_002
\* only logs
ReportsFail == ~RetriesRemain /\ mgr = "comp"

DiscRaised == IF ReportsFail THEN internal_wifi_cb("CONNECT_FAIL") ELSE {}

event_handler_disc ==
    /\ evq # <<>> /\ Head(evq).kind = "DISC"
    /\ evq' = Tail(evq)
    /\ is_sta_connected' = FALSE
    /\ sta_connect_count' = IF RetriesRemain THEN sta_connect_count + 1
                                             ELSE sta_connect_count
    /\ staLink' = IF RetryConnects THEN EspWifiConnect(staLink) ELSE staLink
    /\ bits' = bits \cup DiscRaised
    /\ UNCHANGED <<mgr, mode, staCfg, losses>>

GotIpCount_Keep(c) == c
GotIpCount(c)      == 0

event_handler_got_ip ==
    /\ evq # <<>> /\ Head(evq).kind = "GOT_IP"
    /\ evq' = Tail(evq)
    /\ is_sta_connected' = TRUE
    /\ sta_connect_count' = IF mgr = "draft" THEN sta_connect_count
                             ELSE GotIpCount(sta_connect_count)
    /\ bits' = bits \cup internal_wifi_cb("CONNECTED")
    /\ UNCHANGED <<mgr, mode, staLink, staCfg, losses>>

event_handler_sta_start ==
    /\ evq # <<>> /\ Head(evq).kind = "STA_START"
    /\ evq' = Tail(evq)
    /\ staLink' = IF mgr = "comp" \/ mode = "STA" THEN EspWifiConnect(staLink)
                                                  ELSE staLink
    /\ UNCHANGED <<mgr, sta_connect_count, is_sta_connected, mode, staCfg, losses, bits>>

-----------------------------------------------------------------------------
(* wifi_manager.c: wifi_manager_connect, wifi_manager_ap,                  *)
(* wifi_manager_stop_ap, wifi_manager_get_ip                               *)

ConnectCount_Keep(c) == c
ConnectCount(c)      == 0

\* s, p: the credentials passed in; post: whether an attempt in flight
\* reports the disconnect forced by esp_wifi_disconnect
wifi_manager_connect(s, p, post) ==
    /\ sta_connect_count' = ConnectCount(sta_connect_count)
    /\ staCfg' = <<s, p>>
    /\ IF mgr = "comp" \/ mode = "STA"
       THEN \* esp_wifi_disconnect; esp_wifi_set_config; esp_wifi_connect
            /\ evq' = evq \o DisconnectEvents(post)
            /\ staLink' = EspWifiConnect("idle")
            /\ mode' = mode
       ELSE \* part_002 outside client-only mode: esp_wifi_stop;
            \* esp_wifi_set_mode(STA); esp_wifi_set_config; esp_wifi_start
            /\ evq' = (evq \o DisconnectEvents(post)) \o <<Ev("STA_START")>>
            /\ staLink' = "idle"
            /\ mode' = "STA"
    /\ UNCHANGED <<mgr, is_sta_connected, losses>>

\* part_002 returns early when already in access-point+client mode and
\* otherwise restarts the radio; the component manager only sets the mode
ApModeSet_Mut == "STA"
ApModeSet     == "APSTA"

\* the access-point parameters each source writes with esp_wifi_set_config
FixedAp ==
    IF mgr = "comp"
    THEN [ssid |-> "ESP32_wifi", password |-> "12345678",
          channel |-> 1, max_connection |-> 4, ip |-> "192.168.100.1"]
    ELSE [ssid |-> "ESP32_wifi", password |-> "12345678",
          channel |-> 5, max_connection |-> 2, ip |-> "192.168.100.1"]

\* the early return: part_002 when the mode is access-point+client
\* already, the draft manager when it is not
ApReturnsEarly ==
    CASE mgr = "main"  -> mode = "APSTA"
      [] mgr = "draft" -> mode # "APSTA"
      [] OTHER         -> FALSE

wifi_manager_ap(post) ==
    /\ mode' = IF ApReturnsEarly \/ mode = "APSTA" THEN mode ELSE ApModeSet
    /\ apCfg' = IF ApReturnsEarly THEN apCfg ELSE FixedAp
    /\ IF mgr # "comp" /\ ~ApReturnsEarly
       THEN /\ evq' = (evq \o DisconnectEvents(post)) \o <<Ev("STA_START")>>
            /\ staLink' = "idle"
       ELSE UNCHANGED <<evq, staLink>>
    /\ UNCHANGED <<mgr, sta_connect_count, is_sta_connected, staCfg, losses>>

wifi_manager_stop_ap ==
    /\ mode' = "STA"
    /\ UNCHANGED <<mgr, sta_connect_count, is_sta_connected, drvVars>>

\* wifi_manager_get_ip(ip_str): its result and what it leaves in the caller's
\* buffer; ok: whether esp_netif_get_ip_info succeeds
GetIpRefused_Mut == FALSE
GetIpRefused     == ~is_sta_connected

wifi_manager_get_ip_ret(ok) ==
    IF GetIpRefused THEN "ESP_FAIL"
    ELSE IF ok THEN "ESP_OK" ELSE "ESP_FAIL"

wifi_manager_get_ip_str(buffer, ok) ==
    IF GetIpRefused THEN buffer
    ELSE IF ok THEN "addr" ELSE buffer

\* the call of the coordinator task, on its zeroed local buffer
wifi_manager_get_ip == wifi_manager_get_ip_str("", TRUE)

-----------------------------------------------------------------------------
(* ws_server.c: the transport channel *)

SendGuard_Mut(fd) == FALSE
SendRefused(fd)   == fd < 0

\* the result of ws_server_send; ok: whether httpd_ws_send_data succeeds on
\* the tracked socket
ws_server_send_ret(ok) ==
    IF SendRefused(socket_fd) THEN "ESP_FAIL"
    ELSE IF ok THEN "ESP_OK" ELSE "ESP_ERR"

ws_server_send(payload) ==
    /\ writes' = IF SendRefused(socket_fd) THEN writes
                 ELSE Append(writes, <<socket_fd, payload>>)
    /\ UNCHANGED <<server_handle, socket_fd>>

\* socket_fd = -1 in ws_server_stop
StoppedPeer_Mut(fd) == fd
StoppedPeer(fd)     == -1

ws_server_stop ==
    /\ IF server_handle
       THEN /\ server_handle' = FALSE
            /\ socket_fd' = StoppedPeer(socket_fd)
       ELSE UNCHANGED <<server_handle, socket_fd>>
    /\ UNCHANGED <<sendRet, writes>>

ws_server_start ==
    /\ server_handle' = TRUE
    /\ UNCHANGED <<socket_fd, sendRet, writes>>

\* handle_ws_req on the HTTP GET of the handshake: the socket becomes the
\* tracked peer
TrackPeer_Mut(old, new) == IF old < 0 THEN new ELSE old
TrackPeer(old, new)     == new

handle_ws_req_get(fd) ==
    /\ server_handle
    /\ socket_fd' = TrackPeer(socket_fd, fd)
    /\ UNCHANGED <<server_handle, sendRet, writes>>

\* ---- handle_ws_req on a data frame, one action per call it makes --------

MaxLen   == 2
MaxFrame == 2
MaxConn  == 2

\* size_t of the target is 32 bits wide.  A length of 2^31 or more is written
\* as the negative number congruent to it modulo 2^32, so that the largest
\* length 2^32 - 1 is -1 and adding one to it wraps to 0.
SizeMax == -1

\* payloads name their bytes by position; what malloc returns holds 0 or 255
Texts   == {[i \in 1..n |-> i] : n \in 0..MaxLen}
Garbage == {0, 255}
NoFrame == [fd |-> 0, len |-> 0, type |-> "NONE", payload |-> <<>>, consumed |-> 0]

\* the frames a peer can send: a declared length with as many payload bytes;
\* the payload of the longest frame is never read and is left out
Frames(fd) ==
    {[fd |-> fd, len |-> Len(t), type |-> ty, payload |-> t, consumed |-> 0] :
        t \in Texts, ty \in {"TEXT", "BINARY"}}
    \cup {[fd |-> fd, len |-> SizeMax, type |-> "TEXT", payload |-> <<>>, consumed |-> 0]}

\* httpd closes the session of a handler that does not return ESP_OK
Session(ret, fd) == IF ret = "ESP_OK" THEN open ELSE open \ {fd}

\* what handle_ws_req leaves alone
FrameRest ==
    /\ UNCHANGED <<mgrVars, drvVars, coordVars, wsVars, scanVars, runVars, ipVars,
                   provHist, ncall>>
    /\ UNCHANGED <<lastPeer, apCfg, msgVars, cbVars>>

\* a data frame of an open connection reaches the handler; memset(&ws_pkt)
FrameArrive ==
    /\ server_handle /\ fpc = "idle" /\ nframe < MaxFrame
    /\ \E fd \in open : \E f \in Frames(fd) : frame' = f
    /\ nframe' = nframe + 1
    /\ fpc' = "len" /\ ws_pkt_len' = 0 /\ err' = "none" /\ hret' = "none"
    /\ UNCHANGED <<open, buf, sinkCalls>>
    /\ FrameRest

\* httpd_ws_recv_frame(r, &ws_pkt, 0): the header only
FrameLen ==
    /\ fpc = "len"
    /\ \E ok \in BOOLEAN :
          IF ok
          THEN /\ ws_pkt_len' = frame.len /\ err' = "ESP_OK" /\ fpc' = "alloc"
               /\ UNCHANGED <<hret, open>>
          ELSE /\ err' = "ESP_FAIL" /\ hret' = "ESP_FAIL" /\ fpc' = "idle"
               /\ open' = Session("ESP_FAIL", frame.fd)
               /\ UNCHANGED ws_pkt_len
    /\ UNCHANGED <<frame, buf, sinkCalls, nframe>>
    /\ FrameRest

\* malloc(ws_pkt.len + 1) in size_t; malloc(0) and an exhausted heap give
\* NULL, and the handler returns ESP_ERR_NO_MEM
AllocSize(len) == len + 1

FrameAlloc ==
    /\ fpc = "alloc"
    /\ \E mem \in BOOLEAN, g \in Garbage :
          IF mem /\ AllocSize(ws_pkt_len) # 0
          THEN /\ buf' = [i \in 1..AllocSize(ws_pkt_len) |-> g]
               /\ fpc' = "read"
               /\ UNCHANGED <<hret, open>>
          ELSE /\ hret' = "ESP_ERR_NO_MEM" /\ fpc' = "idle"
               /\ open' = Session("ESP_ERR_NO_MEM", frame.fd)
               /\ UNCHANGED buf
    /\ UNCHANGED <<frame, ws_pkt_len, err, sinkCalls, nframe>>
    /\ FrameRest

\* httpd_ws_recv_frame(r, &ws_pkt, ws_pkt.len): the ws_pkt.len payload bytes
\* into ws_pkt.payload, or a failure after k of them
FrameRead ==
    /\ fpc = "read"
    /\ \E ok \in BOOLEAN, k \in 0..ws_pkt_len :
          /\ ok => k = ws_pkt_len
          /\ err' = IF ok THEN "ESP_OK" ELSE "ESP_FAIL"
          /\ buf' = [i \in 1..Len(buf) |-> IF i <= k THEN frame.payload[i] ELSE buf[i]]
          /\ frame' = [frame EXCEPT !.consumed = k]
    /\ fpc' = "deliver"
    /\ UNCHANGED <<open, ws_pkt_len, hret, sinkCalls, nframe>>
    /\ FrameRest

\* if (err == ESP_OK) if (ws_pkt.type == HTTPD_WS_TYPE_TEXT)
Forwarded_Mut(e, type) == e = "ESP_OK"
Forwarded(e, type)     == e = "ESP_OK" /\ type = "TEXT"

\* buf[ws_pkt.len] = 0
Terminate_Mut(b, len) == b
Terminate(b, len)     == [b EXCEPT ![len + 1] = 0]

\* the sink ws_server_cb is called with the buffer and ws_pkt.len
FrameDeliver ==
    /\ fpc = "deliver"
    /\ IF Forwarded(err, frame.type)
       THEN /\ buf' = Terminate(buf, ws_pkt_len)
            /\ sinkCalls' = Append(sinkCalls,
                                   [id |-> nframe, text |-> buf', len |-> ws_pkt_len])
       ELSE UNCHANGED <<buf, sinkCalls>>
    /\ fpc' = "free"
    /\ UNCHANGED <<open, frame, ws_pkt_len, err, hret, nframe>>
    /\ FrameRest

\* free(buf); return ESP_OK whatever err is
HandlerResult_Mut(e) == e
HandlerResult(e)     == "ESP_OK"

FrameFree ==
    /\ fpc = "free"
    /\ buf' = <<>>
    /\ hret' = HandlerResult(err)
    /\ open' = Session(HandlerResult(err), frame.fd)
    /\ fpc' = "idle"
    /\ UNCHANGED <<frame, ws_pkt_len, err, sinkCalls, nframe>>
    /\ FrameRest

-----------------------------------------------------------------------------
(* wifi_provision.c: the coordinator *)

\* wifi_provision_start_apcfg: wifi_manager_ap, then ws_server_start
wifi_provision_start_apcfg ==
    /\ nstart < MaxStart
    /\ nstart' = nstart + 1
    /\ \E post \in BOOLEAN : wifi_manager_ap(post)
    /\ ws_server_start
    /\ UNCHANGED <<coordVars, scanVars, runVars, ipVars, accepted, sent, opLog,
                   failRaised, npeer, ncall>>
    /\ UNCHANGED <<frameVars, lastPeer, msgVars, cbVars>>

\* a peer completes the handshake on a fresh socket
WsHandshake ==
    /\ npeer < MaxPeer
    /\ npeer' = npeer + 1
    /\ handle_ws_req_get(npeer + 1)
    /\ UNCHANGED <<mgrVars, drvVars, coordVars, scanVars, runVars, ipVars,
                   accepted, sent, opLog, failRaised, nstart, ncall>>
    /\ UNCHANGED auxVars

\* ws_receive_handle on a frame that carries ssid and password, one action
\* per statement that writes shared state
HSsid ==
    /\ hpc = "idle" /\ server_handle /\ socket_fd >= 0
    /\ nsub < MaxSub
    /\ nsub' = nsub + 1
    /\ hsub' = nsub + 1
    /\ current_ssid' = nsub + 1
    /\ hpc' = "pwd"
    /\ UNCHANGED <<current_password, is_configuring, evVars, taskVars>>
    /\ UNCHANGED <<mgrVars, drvVars, wsVars, scanVars, runVars, ipVars, provHist, ncall>>
    /\ UNCHANGED auxVars

HPwd ==
    /\ hpc = "pwd"
    /\ current_password' = hsub
    /\ hpc' = "cfg"
    /\ UNCHANGED <<current_ssid, is_configuring, evVars, taskVars, hsub, nsub>>
    /\ UNCHANGED <<mgrVars, drvVars, wsVars, scanVars, runVars, ipVars, provHist, ncall>>
    /\ UNCHANGED auxVars

HCfg ==
    /\ hpc = "cfg"
    /\ is_configuring' = TRUE
    /\ accepted' = accepted \cup {hsub}
    /\ hpc' = "bit"
    /\ UNCHANGED <<credVars, evVars, taskVars, hsub, nsub>>
    /\ UNCHANGED <<mgrVars, drvVars, wsVars, scanVars, runVars, ipVars, sent, opLog,
                   failRaised, nstart, npeer, ncall>>
    /\ UNCHANGED auxVars

HBit ==
    /\ hpc = "bit"
    /\ bits' = bits \cup {"CONNECTED"}
    /\ hpc' = "idle"
    /\ hsub' = 0
    /\ UNCHANGED <<credVars, is_configuring, bitSrc, taskVars, nsub>>
    /\ UNCHANGED <<mgrVars, drvVars, wsVars, scanVars, runVars, ipVars, provHist, ncall>>
    /\ UNCHANGED auxVars

\* the event loop delivers the oldest event to event_handler
NewSrc(raised) ==
    [b \in Terminal |-> IF b \in raised /\ b \notin bits THEN Head(evq).sub
                                                         ELSE bitSrc[b]]

EvDisc ==
    /\ event_handler_disc
    /\ bitSrc' = NewSrc(DiscRaised)
    /\ discRun' = discRun + 1
    /\ autoRun' = IF RetriesRemain THEN autoRun + 1 ELSE autoRun
    /\ failRun' = IF ReportsFail THEN failRun + 1 ELSE failRun
    /\ failRaised' = IF "FAIL" \in DiscRaised THEN failRaised + 1 ELSE failRaised
    /\ UNCHANGED <<credVars, is_configuring, taskVars, hVars>>
    /\ UNCHANGED <<wsVars, scanVars, ipVars, accepted, sent, opLog, nstart, npeer, ncall>>
    /\ UNCHANGED auxVars

EvGotIp ==
    /\ event_handler_got_ip
    /\ bitSrc' = NewSrc(internal_wifi_cb("CONNECTED"))
    /\ discRun' = 0 /\ autoRun' = 0 /\ failRun' = 0
    /\ UNCHANGED <<credVars, is_configuring, taskVars, hVars>>
    /\ UNCHANGED <<wsVars, scanVars, ipVars, provHist, ncall>>
    /\ UNCHANGED auxVars

EvStaStart ==
    /\ event_handler_sta_start
    /\ UNCHANGED <<credVars, is_configuring, bitSrc, taskVars, hVars>>
    /\ UNCHANGED <<wsVars, scanVars, runVars, ipVars, provHist, ncall>>
    /\ UNCHANGED auxVars

\* wifi_provision_task, one action per statement
NoBitSrc == [b \in Terminal |-> NoSrc]

BranchAfter(at, b) ==
    CASE at = "wait"    /\ "CONNECTED" \in b -> "connect"
      [] at \in {"wait", "connect"} /\ "FAIL" \in b -> "fail_push"
      [] at \in {"wait", "connect", "fail_clear"} /\ "SUCCESS" \in b -> "succ_ip"
      [] OTHER -> "wait"

TaskWait ==
    /\ pc = "wait" /\ bits # {}
    /\ taskBits' = bits
    /\ bits' = {}
    /\ taskSrc' = bitSrc
    /\ bitSrc' = NoBitSrc
    /\ pc' = BranchAfter("wait", bits)
    /\ opLog' = <<>>
    /\ UNCHANGED <<credVars, is_configuring, ip_str, hVars>>
    /\ UNCHANGED <<mgrVars, drvVars, wsVars, scanVars, runVars, ipVars, accepted, sent,
                   failRaised, nstart, npeer, ncall>>
    /\ UNCHANGED auxVars

TaskConnect ==
    /\ pc = "connect"
    /\ \E post \in BOOLEAN : wifi_manager_connect(current_ssid, current_password, post)
    /\ discRun' = 0 /\ autoRun' = 0 /\ failRun' = 0
    /\ pc' = BranchAfter("connect", taskBits)
    /\ UNCHANGED <<credVars, is_configuring, evVars, taskBits, ip_str, taskSrc, hVars>>
    /\ UNCHANGED <<wsVars, scanVars, ipVars, provHist, ncall>>
    /\ UNCHANGED auxVars

\* send_status_to_web: the reply carries the stored name as it is now; the
\* result of ws_server_send is dropped
send_status_to_web(status, ip) ==
    /\ ws_server_send(<<status, current_ssid, ip>>)
    /\ sendRet' = sendRet
    /\ sent' = Append(sent, [status |-> status, ssid |-> current_ssid, ip |-> ip,
                             src |-> taskSrc[IF status = "failed" THEN "FAIL"
                                                                  ELSE "SUCCESS"]])

FailPushEffect_Mut == mode' = "STA" /\ UNCHANGED <<mgr, sta_connect_count, is_sta_connected>>
FailPushEffect     == UNCHANGED mgrVars

TaskFailPush ==
    /\ pc = "fail_push"
    /\ send_status_to_web("failed", "")
    /\ FailPushEffect
    /\ pc' = "fail_clear"
    /\ UNCHANGED <<credVars, is_configuring, evVars, taskBits, ip_str, taskSrc, hVars>>
    /\ UNCHANGED <<drvVars, scanVars, runVars, ipVars, accepted, opLog,
                   failRaised, nstart, npeer, ncall>>
    /\ UNCHANGED auxVars

TaskFailClear ==
    /\ pc = "fail_clear"
    /\ is_configuring' = FALSE
    /\ pc' = BranchAfter("fail_clear", taskBits)
    /\ UNCHANGED <<credVars, evVars, taskBits, ip_str, taskSrc, hVars>>
    /\ UNCHANGED <<mgrVars, drvVars, wsVars, scanVars, runVars, ipVars, provHist, ncall>>
    /\ UNCHANGED auxVars

TaskSuccIp ==
    /\ pc = "succ_ip"
    /\ ip_str' = wifi_manager_get_ip
    /\ pc' = "succ_push"
    /\ UNCHANGED <<credVars, is_configuring, evVars, taskBits, taskSrc, hVars>>
    /\ UNCHANGED <<mgrVars, drvVars, wsVars, scanVars, runVars, ipVars, provHist, ncall>>
    /\ UNCHANGED auxVars

SuccNext_Mut(at) ==
    CASE at = "succ_push"  -> "succ_clear"
      [] at = "succ_clear" -> "succ_ap"
      [] at = "succ_ap"    -> "succ_delay"
      [] at = "succ_delay" -> "succ_ws"
      [] OTHER             -> "wait"

SuccNext(at) ==
    CASE at = "succ_push"  -> "succ_clear"
      [] at = "succ_clear" -> "succ_delay"
      [] at = "succ_delay" -> "succ_ws"
      [] at = "succ_ws"    -> "succ_ap"
      [] OTHER             -> "wait"

TaskSuccPush ==
    /\ pc = "succ_push"
    /\ send_status_to_web("connected", ip_str)
    /\ opLog' = Append(opLog, "push")
    /\ pc' = SuccNext(pc)
    /\ UNCHANGED <<credVars, is_configuring, evVars, taskBits, ip_str, taskSrc, hVars>>
    /\ UNCHANGED <<mgrVars, drvVars, scanVars, runVars, ipVars, accepted,
                   failRaised, nstart, npeer, ncall>>
    /\ UNCHANGED auxVars

TaskSuccClear ==
    /\ pc = "succ_clear"
    /\ is_configuring' = FALSE
    /\ opLog' = Append(opLog, "clear")
    /\ pc' = SuccNext(pc)
    /\ UNCHANGED <<credVars, evVars, taskBits, ip_str, taskSrc, hVars>>
    /\ UNCHANGED <<mgrVars, drvVars, wsVars, scanVars, runVars, ipVars, accepted, sent,
                   failRaised, nstart, npeer, ncall>>
    /\ UNCHANGED auxVars

TaskSuccDelay ==
    /\ pc = "succ_delay"
    /\ opLog' = Append(opLog, "delay")
    /\ pc' = SuccNext(pc)
    /\ UNCHANGED <<credVars, is_configuring, evVars, taskBits, ip_str, taskSrc, hVars>>
    /\ UNCHANGED <<mgrVars, drvVars, wsVars, scanVars, runVars, ipVars, accepted, sent,
                   failRaised, nstart, npeer, ncall>>
    /\ UNCHANGED auxVars

\* httpd_stop returns once the server task has finished the request at hand
TaskSuccWsStop ==
    /\ pc = "succ_ws"
    /\ hpc = "idle"
    /\ ws_server_stop
    /\ opLog' = Append(opLog, "ws_stop")
    /\ pc' = SuccNext(pc)
    /\ UNCHANGED <<credVars, is_configuring, evVars, taskBits, ip_str, taskSrc, hVars>>
    /\ UNCHANGED <<mgrVars, drvVars, scanVars, runVars, ipVars, accepted, sent,
                   failRaised, nstart, npeer, ncall>>
    /\ UNCHANGED auxVars

TaskSuccApStop ==
    /\ pc = "succ_ap"
    /\ wifi_manager_stop_ap
    /\ opLog' = Append(opLog, "ap_stop")
    /\ pc' = SuccNext(pc)
    /\ UNCHANGED <<credVars, is_configuring, evVars, taskBits, ip_str, taskSrc, hVars>>
    /\ UNCHANGED <<wsVars, scanVars, runVars, ipVars, accepted, sent,
                   failRaised, nstart, npeer, ncall>>
    /\ UNCHANGED auxVars

-----------------------------------------------------------------------------
(* The provisioning system: component manager, channel and coordinator     *)
(* after wifi_provision_init.  wifi_manager_init has started the radio in  *)
(* client-only mode, so the start event is on its way.                     *)

\* the text cJSON_Parse rejects; also the value of lastMsg before any text
NoMsg == [json |-> FALSE, scan |-> [kind |-> "absent", val |-> ""],
          ssid |-> [kind |-> "absent", val |-> <<>>],
          password |-> [kind |-> "absent", val |-> <<>>]]

InitState ==
    /\ sta_connect_count = 0 /\ is_sta_connected = FALSE /\ mode = "STA"
    /\ staLink = "idle" /\ staCfg = <<0, 0>> /\ losses = 0
    /\ is_configuring = FALSE
    /\ bits = {} /\ pc = "wait" /\ taskBits = {} /\ ip_str = ""
    /\ hpc = "idle" /\ hsub = 0
    /\ socket_fd = -1 /\ sendRet = "none" /\ writes = <<>>
    /\ scan_semaphore = TRUE /\ scan_task_handle = 0
    /\ scanPc = <<>> /\ scanRes = <<>> /\ scanRet = "none" /\ delivered = <<>>
    /\ nsub = 0 /\ accepted = {} /\ bitSrc = NoBitSrc /\ taskSrc = NoBitSrc
    /\ sent = <<>> /\ opLog = <<>>
    /\ discRun = 0 /\ autoRun = 0 /\ failRun = 0 /\ failRaised = 0
    /\ gotIpSeen = FALSE /\ discSinceIp = 0 /\ connectFrom = {}
    /\ nstart = 0 /\ npeer = 0 /\ ncall = 0
    /\ apCfg = [ssid |-> "", password |-> "", channel |-> 0, max_connection |-> 0,
                ip |-> ""]
    /\ open = {} /\ fpc = "idle" /\ frame = NoFrame
    /\ ws_pkt_len = 0 /\ err = "none" /\ buf = <<>> /\ hret = "none"
    /\ sinkCalls = <<>>
    /\ lastPeer = -1 /\ lastMsg = NoMsg /\ scanList = <<>> /\ nmsg = 0 /\ nframe = 0
    /\ userCb = <<>> /\ ipRet = "none"

InitCommon ==
    /\ InitState
    /\ server_handle = FALSE
    /\ current_ssid = 0 /\ current_password = 0

Init ==
    /\ InitCommon
    /\ mgr = "comp"
    /\ evq = <<[kind |-> "STA_START", sub |-> 0]>>

Next ==
    \/ DrvFail \/ DrvGotIp \/ DrvLoss
    \/ EvDisc \/ EvGotIp \/ EvStaStart
    \/ wifi_provision_start_apcfg \/ WsHandshake
    \/ HSsid \/ HPwd \/ HCfg \/ HBit
    \/ TaskWait \/ TaskConnect
    \/ TaskFailPush \/ TaskFailClear
    \/ TaskSuccIp \/ TaskSuccPush \/ TaskSuccClear
    \/ TaskSuccDelay \/ TaskSuccWsStop \/ TaskSuccApStop

Spec == Init /\ [][Next]_vars

-----------------------------------------------------------------------------
(* The transport channel alone, driven by a caller of its interface *)

Payloads == {"a", "b"}

WsStart ==
    /\ ncall < MaxWsCall
    /\ ncall' = ncall + 1
    /\ ws_server_start
    /\ UNCHANGED <<mgrVars, drvVars, coordVars, scanVars, runVars, ipVars, provHist>>
    /\ UNCHANGED auxVars

WsStop ==
    /\ ncall < MaxWsCall
    /\ ncall' = ncall + 1
    /\ ws_server_stop
    /\ open' = IF server_handle THEN {} ELSE open
    /\ UNCHANGED <<mgrVars, drvVars, coordVars, scanVars, runVars, ipVars, provHist>>
    /\ UNCHANGED <<fpc, frame, ws_pkt_len, err, buf, hret, sinkCalls, nframe,
                   lastPeer, apCfg, msgVars, cbVars>>

WsSend ==
    /\ ncall < MaxWsCall
    /\ ncall' = ncall + 1
    /\ \E payload \in Payloads, ok \in BOOLEAN :
          /\ ws_server_send(payload)
          /\ sendRet' = ws_server_send_ret(ok)
    /\ UNCHANGED <<mgrVars, drvVars, coordVars, scanVars, runVars, ipVars, provHist>>
    /\ UNCHANGED auxVars

\* a peer completes the handshake on socket fd
WsAccept ==
    /\ fpc = "idle"
    /\ \E fd \in (1..MaxConn) \ open :
          /\ handle_ws_req_get(fd)
          /\ open' = open \cup {fd}
          /\ lastPeer' = fd
    /\ hret' = "ESP_OK"
    /\ UNCHANGED <<mgrVars, drvVars, coordVars, scanVars, runVars, ipVars, provHist,
                   ncall>>
    /\ UNCHANGED <<fpc, frame, ws_pkt_len, err, buf, sinkCalls, nframe, apCfg, msgVars,
                   cbVars>>

\* the peer of an open connection closes it
PeerClose ==
    /\ fpc = "idle"
    /\ \E fd \in open : open' = open \ {fd}
    /\ UNCHANGED <<mgrVars, drvVars, coordVars, wsVars, scanVars, runVars, ipVars,
                   provHist, ncall>>
    /\ UNCHANGED <<fpc, frame, ws_pkt_len, err, buf, hret, sinkCalls, nframe,
                   lastPeer, apCfg, msgVars, cbVars>>

InitWs ==
    /\ InitCommon
    /\ mgr = "comp"
    /\ evq = <<>>

NextWs == WsStart \/ WsStop \/ WsSend \/ WsAccept \/ PeerClose

SpecWs == InitWs /\ [][NextWs]_vars

-----------------------------------------------------------------------------
(* The frame handler of the running server: peers connect and send data    *)
(* frames; the httpd task handles one request at a time.                   *)

\* ws_server_start has succeeded: the server runs and no peer has connected
InitFrame ==
    /\ InitState
    /\ server_handle = TRUE
    /\ current_ssid = 0 /\ current_password = 0
    /\ mgr = "comp"
    /\ evq = <<>>

NextFrame ==
    \/ WsAccept \/ PeerClose
    \/ FrameArrive \/ FrameLen \/ FrameAlloc \/ FrameRead \/ FrameDeliver \/ FrameFree

SpecFrame == InitFrame /\ [][NextFrame]_vars

-----------------------------------------------------------------------------
(* A link manager alone (component or part_002), driven by a caller of its *)
(* interface, the driver and the event loop                                *)

LinkSituation ==
    CASE staLink = "connected"  -> "connected"
      [] staLink = "connecting" -> "connecting"
      [] staLink = "idle" /\ evq = <<>> /\ ~RetriesRemain -> "exhausted"
      [] OTHER -> "idle"

MgrConnect ==
    /\ ncall < MaxMgrCall
    /\ ncall' = ncall + 1
    /\ \E post \in BOOLEAN : wifi_manager_connect(ncall + 1, ncall + 1, post)
    /\ connectFrom' = connectFrom \cup {LinkSituation}
    /\ UNCHANGED <<coordVars, wsVars, scanVars, runVars, gotIpSeen, discSinceIp, provHist>>
    /\ UNCHANGED auxVars

MgrAp ==
    /\ ncall < MaxMgrCall
    /\ ncall' = ncall + 1
    /\ \E post \in BOOLEAN : wifi_manager_ap(post)
    /\ UNCHANGED <<coordVars, wsVars, scanVars, runVars, ipVars, provHist>>
    /\ UNCHANGED <<frameVars, lastPeer, msgVars, cbVars>>

\* part_002 has no wifi_manager_stop_ap
MgrStopAp ==
    /\ mgr = "comp"
    /\ ncall < MaxMgrCall
    /\ ncall' = ncall + 1
    /\ wifi_manager_stop_ap
    /\ UNCHANGED <<coordVars, wsVars, scanVars, runVars, ipVars, provHist>>
    /\ UNCHANGED auxVars

MgrEvDisc ==
    /\ event_handler_disc
    /\ discSinceIp' = Min(discSinceIp + 1, 2)
    /\ UNCHANGED <<credVars, is_configuring, bitSrc, taskVars, hVars>>
    /\ UNCHANGED <<wsVars, scanVars, runVars, gotIpSeen, connectFrom, provHist, ncall>>
    /\ UNCHANGED auxVars

MgrEvGotIp ==
    /\ event_handler_got_ip
    /\ gotIpSeen' = TRUE
    /\ discSinceIp' = 0
    /\ UNCHANGED <<credVars, is_configuring, bitSrc, taskVars, hVars>>
    /\ UNCHANGED <<wsVars, scanVars, runVars, connectFrom, provHist, ncall>>
    /\ UNCHANGED auxVars

InitMgr ==
    /\ InitCommon
    /\ mgr \in {"comp", "main"}
    /\ evq = <<[kind |-> "STA_START", sub |-> 0]>>

NextMgr ==
    \/ DrvFail \/ DrvGotIp \/ DrvLoss
    \/ MgrEvDisc \/ MgrEvGotIp \/ EvStaStart
    \/ MgrConnect \/ MgrAp \/ MgrStopAp

SpecMgr == InitMgr /\ [][NextMgr]_vars

-----------------------------------------------------------------------------
(* A link manager (component or part_002) with the state callback of its   *)
(* coordinator (internal_wifi_cb, internal_wifi_callback of ap_wifi.c), a  *)
(* registered user callback and a caller of wifi_manager_get_ip.  The      *)
(* coordinator is reduced to its flag is_configuring, which the message    *)
(* handler sets and the coordinator task clears.                           *)

\* the states event_handler passes to wifi_state_cb, per event
StateReports(kind) ==
    CASE kind = "DISC" ->
             (IF is_sta_connected THEN <<"DISCONNECTED">> ELSE <<>>)
             \o (IF ReportsFail THEN <<"CONNECT_FAIL">> ELSE <<>>)
      [] kind = "GOT_IP" -> <<"CONNECTED">>
      [] OTHER -> <<>>

\* the calls of the user callback made by the state callback for one state
UserCalls_Mut(state) == IF is_configuring THEN <<state>> ELSE <<>>
UserCalls(state) ==
    CASE state = "CONNECTED"    -> <<"CONNECTED">>
      [] state = "DISCONNECTED" -> <<"DISCONNECTED">>
      [] state = "CONNECT_FAIL" -> <<"CONNECT_FAIL">>
      [] OTHER                  -> <<>>

RECURSIVE Forwarding(_)
Forwarding(reports) ==
    IF reports = <<>> THEN <<>>
    ELSE UserCalls(Head(reports)) \o Forwarding(Tail(reports))

LinkRest ==
    /\ UNCHANGED <<credVars, is_configuring, bitSrc, taskVars, hVars>>
    /\ UNCHANGED <<wsVars, scanVars, runVars, connectFrom, provHist, ncall>>
    /\ UNCHANGED <<frameVars, lastPeer, apCfg, msgVars, ipRet>>

LinkEvDisc ==
    /\ event_handler_disc
    /\ userCb' = Forwarding(StateReports("DISC"))
    /\ discSinceIp' = Min(discSinceIp + 1, 2)
    /\ UNCHANGED gotIpSeen
    /\ LinkRest

LinkEvGotIp ==
    /\ event_handler_got_ip
    /\ userCb' = Forwarding(StateReports("GOT_IP"))
    /\ gotIpSeen' = TRUE
    /\ discSinceIp' = 0
    /\ LinkRest

\* the coordinator task calls wifi_manager_connect
LinkConnect ==
    /\ ncall < MaxLinkCall
    /\ ncall' = ncall + 1
    /\ \E post \in BOOLEAN : wifi_manager_connect(ncall + 1, ncall + 1, post)
    /\ UNCHANGED <<coordVars, wsVars, scanVars, runVars, ipVars, provHist>>
    /\ UNCHANGED auxVars

\* ws_receive_handle sets the flag on a submission, the coordinator task
\* clears it after a status reply
LinkConfiguring ==
    /\ is_configuring' = ~is_configuring
    /\ UNCHANGED <<credVars, evVars, taskVars, hVars>>
    /\ UNCHANGED <<mgrVars, drvVars, wsVars, scanVars, runVars, ipVars, provHist, ncall>>
    /\ UNCHANGED auxVars

\* a task calls wifi_manager_get_ip on its buffer ip_str
LinkGetIp ==
    /\ \E ok \in BOOLEAN :
          /\ ipRet' = wifi_manager_get_ip_ret(ok)
          /\ ip_str' = wifi_manager_get_ip_str(ip_str, ok)
    /\ UNCHANGED <<credVars, is_configuring, evVars, pc, taskBits, taskSrc, hVars>>
    /\ UNCHANGED <<mgrVars, drvVars, wsVars, scanVars, runVars, ipVars, provHist, ncall>>
    /\ UNCHANGED <<frameVars, lastPeer, apCfg, msgVars, userCb>>

NextLink ==
    \/ DrvFail \/ DrvGotIp \/ DrvLoss
    \/ LinkEvDisc \/ LinkEvGotIp \/ EvStaStart
    \/ LinkConnect \/ LinkConfiguring \/ LinkGetIp

SpecLink == InitMgr /\ [][NextLink]_vars

-----------------------------------------------------------------------------
(* wifi_manager.c: wifi_manager_scan and scan_task, driven by a caller.    *)
(* Each accepted request has an entry in scanPc; its callback is the       *)
(* request's own.                                                          *)

ScanOutcomes == {"start_fail", "none", "no_mem", "get_fail", "found"}

\* the argument scan_task passes to the callback, <<>> when it makes no call
ScanCallback(res) ==
    IF mgr = "comp"
    THEN CASE res = "start_fail" -> <<>>
           [] res = "none"       -> <<"empty">>
           [] res = "no_mem"     -> <<>>
           [] OTHER              -> <<"list">>
    ELSE CASE res = "get_fail"   -> <<>>
           [] res = "found"      -> <<"list">>
           [] OTHER              -> <<"empty">>

\* xSemaphoreTake(scan_semaphore, 0) == pdTRUE
SemTake_Mut(sem) == TRUE
SemTake(sem)     == sem

\* mem: malloc of the task context succeeds; created: xTaskCreate succeeds
wifi_manager_scan(mem, created) ==
    IF ~SemTake(scan_semaphore)
    THEN /\ scanRet' = "ESP_ERR_INVALID_STATE"
         /\ UNCHANGED <<scan_semaphore, scan_task_handle, scanPc, scanRes, delivered>>
    ELSE IF mgr = "comp"
    THEN \* neither malloc nor xTaskCreate is checked
         /\ scan_semaphore' = FALSE
         /\ scanRet' = IF mem THEN "ESP_OK" ELSE "panic"
         /\ scanPc' = IF ~mem THEN scanPc
                      ELSE Append(scanPc, IF created THEN "run" ELSE "absent")
         /\ scanRes' = IF mem THEN Append(scanRes, "pending") ELSE scanRes
         /\ scan_task_handle' = IF mem /\ created THEN Len(scanPc) + 1
                                                  ELSE scan_task_handle
         /\ UNCHANGED delivered
    \* part_002 gives the semaphore back before each early return, the
    \* draft manager returns with the semaphore taken
    ELSE IF scan_task_handle # 0
    THEN /\ scanRet' = "ESP_ERR_INVALID_STATE"
         /\ scan_semaphore' = (mgr = "main")
         /\ UNCHANGED <<scan_task_handle, scanPc, scanRes, delivered>>
    ELSE IF ~mem
    THEN /\ scanRet' = "ESP_ERR_NO_MEM"
         /\ scan_semaphore' = (mgr = "main")
         /\ UNCHANGED <<scan_task_handle, scanPc, scanRes, delivered>>
    ELSE IF ~created
    THEN /\ scanRet' = "ESP_FAIL"
         /\ scan_semaphore' = (mgr = "main")
         /\ scan_task_handle' = 0
         /\ UNCHANGED <<scanPc, scanRes, delivered>>
    ELSE /\ scanRet' = "ESP_OK"
         /\ scan_semaphore' = FALSE
         /\ scanPc' = Append(scanPc, "run")
         /\ scanRes' = Append(scanRes, "pending")
         /\ scan_task_handle' = Len(scanPc) + 1
         /\ UNCHANGED delivered

ScanCall ==
    /\ scanRet # "panic"
    /\ ncall < MaxScanCall
    /\ ncall' = ncall + 1
    /\ \E mem \in BOOLEAN, created \in BOOLEAN : wifi_manager_scan(mem, created)
    /\ UNCHANGED <<mgrVars, drvVars, coordVars, wsVars, runVars, ipVars, provHist>>
    /\ UNCHANGED auxVars

\* scan_task: the blocking driver scan and the callback
ScanRun ==
    \E i \in DOMAIN scanPc, res \in ScanOutcomes :
        /\ scanRet # "panic"
        /\ scanPc[i] = "run"
        /\ scanRes' = [scanRes EXCEPT ![i] = res]
        /\ delivered' = delivered \o [k \in 1..Len(ScanCallback(res)) |->
                                         <<i, ScanCallback(res)[k]>>]
        /\ scanPc' = [scanPc EXCEPT ![i] = "give"]
        /\ UNCHANGED <<scan_semaphore, scan_task_handle, scanRet>>
        /\ UNCHANGED <<mgrVars, drvVars, coordVars, wsVars, runVars, ipVars, provHist, ncall>>
        /\ UNCHANGED auxVars

\* scan_task: xSemaphoreGive(scan_semaphore)
ScanGive ==
    \E i \in DOMAIN scanPc :
        /\ scanRet # "panic"
        /\ scanPc[i] = "give"
        /\ scan_semaphore' = TRUE
        /\ scanPc' = [scanPc EXCEPT ![i] = "clear"]
        /\ UNCHANGED <<scan_task_handle, scanRes, scanRet, delivered>>
        /\ UNCHANGED <<mgrVars, drvVars, coordVars, wsVars, runVars, ipVars, provHist, ncall>>
        /\ UNCHANGED auxVars

\* scan_task: scan_task_handle = NULL, then the task deletes itself
ScanClear ==
    \E i \in DOMAIN scanPc :
        /\ scanRet # "panic"
        /\ scanPc[i] = "clear"
        /\ scan_task_handle' = 0
        /\ scanPc' = [scanPc EXCEPT ![i] = "done"]
        /\ UNCHANGED <<scan_semaphore, scanRes, scanRet, delivered>>
        /\ UNCHANGED <<mgrVars, drvVars, coordVars, wsVars, runVars, ipVars, provHist, ncall>>
        /\ UNCHANGED auxVars

InitScan ==
    /\ InitCommon
    /\ mgr \in {"comp", "main"}
    /\ evq = <<>>

NextScan == ScanCall \/ ScanRun \/ ScanGive \/ ScanClear

SpecScan == InitScan /\ [][NextScan]_vars

\* a scan task that was created is scheduled until it deletes itself
SpecScanLive ==
    SpecScan /\ WF_vars(ScanRun) /\ WF_vars(ScanGive) /\ WF_vars(ScanClear)

-----------------------------------------------------------------------------
(* The draft manager (main/wifi_manager.c) after wifi_manager_init, with   *)
(* a caller of wifi_manager_ap and wifi_manager_scan, the driver, the      *)
(* event loop and its scan task                                            *)

InitDraft ==
    /\ InitCommon
    /\ mgr = "draft"
    /\ evq = <<[kind |-> "STA_START", sub |-> 0]>>

NextDraft ==
    \/ DrvFail \/ DrvGotIp \/ DrvLoss
    \/ MgrEvDisc \/ MgrEvGotIp \/ EvStaStart
    \/ MgrAp
    \/ ScanCall \/ ScanRun \/ ScanGive \/ ScanClear

SpecDraft == InitDraft /\ [][NextDraft]_vars

-----------------------------------------------------------------------------
(* The message sink ws_receive_handle and the scan reply wifi_scan_handle, *)
(* in the component (wifi_provision.c) and in the main tree (ap_wifi.c,    *)
(* built with the manager of part_002).  Here the stored credentials are   *)
(* the bytes snprintf writes, terminator included.                         *)

MaxMsg == 2
MaxAp  == 2

\* sizeof(current_ssid), sizeof(current_password)
SsidSize == 33
PwdSize  == 65

\* a member of the parsed document: absent, a member that is no string, or
\* a string
Absent    == [kind |-> "absent", val |-> <<>>]
NonString == [kind |-> "number", val |-> <<>>]
Str(v)    == [kind |-> "string", val |-> v]

\* strings name their bytes by position: an ssid of n bytes is 1..n, a
\* password of n bytes is 101..100+n
SsidOf(n) == [i \in 1..n |-> i]
PwdOf(n)  == [i \in 1..n |-> 100 + i]

ScanValues == {[kind |-> "absent", val |-> ""], [kind |-> "number", val |-> ""],
               [kind |-> "string", val |-> "start"], [kind |-> "string", val |-> "stop"]}

\* the texts a peer can send: one that cJSON_Parse rejects, and the
\* documents with each combination of members
Msgs ==
    {NoMsg} \cup
    [json : {TRUE}, scan : ScanValues,
     ssid : {Absent, NonString, Str(SsidOf(1))},
     password : {Absent, NonString, Str(PwdOf(1))}]

\* scan_js && cJSON_IsString(scan_js) && strcmp(valuestring, "start") == 0
ScanRequested_Mut(f) == f.kind = "string"
ScanRequested(f)     == f.kind = "string" /\ f.val = "start"

\* ssid_js && pwd_js && cJSON_IsString(ssid_js) && cJSON_IsString(pwd_js)
CredentialsGiven(m) == m.ssid.kind = "string" /\ m.password.kind = "string"

\* snprintf(dst, size, "%s", s): the characters it stores before the terminator
CopyLen_Mut(size, s) == Min(Len(s), size)
CopyLen(size, s)     == Min(Len(s), size - 1)

snprintf(size, s) == SubSeq(s, 1, CopyLen(size, s)) \o <<0>>

\* ws_receive_handle(data, len) with data parsed to m; mem, created: the
\* outcomes of malloc and xTaskCreate inside wifi_manager_scan
ws_receive_handle(m, mem, created) ==
    IF ~m.json
    THEN UNCHANGED <<scanVars, credVars, is_configuring, bits>>
    ELSE /\ IF ScanRequested(m.scan)
            THEN wifi_manager_scan(mem, created)
            ELSE UNCHANGED scanVars
         /\ IF scanRet' # "panic" /\ CredentialsGiven(m)
            THEN /\ current_ssid' = snprintf(SsidSize, m.ssid.val)
                 /\ current_password' = snprintf(PwdSize, m.password.val)
                 /\ is_configuring' = TRUE
                 /\ bits' = bits \cup {"CONNECTED"}
            ELSE UNCHANGED <<credVars, is_configuring, bits>>

\* cJSON type tags used as the argument of cJSON_AddBoolToObject in ap_wifi.c
cJSON_False == 1
cJSON_True  == 2

\* cJSON_AddBoolToObject(item, name, b): the member is true when b is not 0
cJSON_AddBool(b) == b # 0

\* the value of the member "encrypted" for a record's authmode
Encrypted(authmode) ==
    IF mgr = "comp"
    THEN authmode # "OPEN"
    ELSE cJSON_AddBool(IF authmode = "OPEN" THEN cJSON_False ELSE cJSON_True)

\* the document wifi_scan_handle builds for the records ap
ScanReply(ap) ==
    [wifi_list |-> [i \in 1..Len(ap) |->
                       [ssid |-> ap[i].ssid, rssi |-> ap[i].rssi,
                        encrypted |-> Encrypted(ap[i].authmode)]]]

\* wifi_scan_handle(ap, ap_count): the list is printed and pushed; the result
\* of the push is dropped
wifi_scan_handle(ap) ==
    /\ ws_server_send(ScanReply(ap))
    /\ UNCHANGED sendRet

\* the records a scan can produce: record i is named i and has rssi -i; the
\* even ones are open networks
ApRecord(i) == [ssid |-> i, rssi |-> 0 - i,
                authmode |-> IF i % 2 = 0 THEN "OPEN" ELSE "WPA2_PSK"]
ApLists == {[i \in 1..n |-> ApRecord(i)] : n \in 0..MaxAp}

\* the texts that are no command: not a document, or a document that has
\* neither "scan" : "start" nor a string ssid together with a string password
Unrecognized(m) ==
    \/ ~m.json
    \/ /\ ~(m.scan.kind = "string" /\ m.scan.val = "start")
       /\ ~(m.ssid.kind = "string" /\ m.password.kind = "string")

\* what ws_receive_handle leaves alone
SinkRest ==
    /\ UNCHANGED <<mgrVars, drvVars, wsVars, runVars, ipVars, provHist, ncall>>
    /\ UNCHANGED <<bitSrc, taskVars, hVars, frameVars, lastPeer, apCfg, scanList,
                   lastMsg, cbVars>>

\* a command reaches the sink
MsgCommand ==
    /\ scanRet # "panic"
    /\ nmsg < MaxMsg
    /\ nmsg' = nmsg + 1
    /\ \E m \in {x \in Msgs : ~Unrecognized(x)}, mem \in BOOLEAN, created \in BOOLEAN :
          ws_receive_handle(m, mem, created)
    /\ SinkRest

\* a text that is no command reaches the sink
MsgOther ==
    /\ scanRet # "panic"
    /\ nmsg < MaxMsg
    /\ nmsg' = nmsg + 1
    /\ \E m \in {x \in Msgs : Unrecognized(x)}, mem \in BOOLEAN, created \in BOOLEAN :
          ws_receive_handle(m, mem, created)
    /\ SinkRest

\* scan_task: the blocking driver scan, then the callback wifi_scan_handle
\* with the records when the task calls it
MsgScanRun ==
    \E i \in DOMAIN scanPc, res \in ScanOutcomes, ap \in ApLists :
        /\ scanRet # "panic"
        /\ scanPc[i] = "run"
        /\ (ap # <<>>) = (ScanCallback(res) = <<"list">>)
        /\ scanRes' = [scanRes EXCEPT ![i] = res]
        /\ delivered' = delivered \o [k \in 1..Len(ScanCallback(res)) |->
                                         <<i, ScanCallback(res)[k]>>]
        /\ IF ScanCallback(res) # <<>>
           THEN wifi_scan_handle(ap) /\ scanList' = ap
           ELSE UNCHANGED <<wsVars, scanList>>
        /\ scanPc' = [scanPc EXCEPT ![i] = "give"]
        /\ UNCHANGED <<scan_semaphore, scan_task_handle, scanRet>>
        /\ UNCHANGED <<mgrVars, drvVars, coordVars, runVars, ipVars, provHist, ncall>>
        /\ UNCHANGED <<frameVars, lastPeer, apCfg, lastMsg, nmsg, cbVars>>

\* the server runs; no text has arrived
InitMsg ==
    /\ InitState
    /\ server_handle = TRUE
    /\ current_ssid = <<0>> /\ current_password = <<0>>
    /\ mgr \in {"comp", "main"}
    /\ evq = <<>>

NextMsg == WsHandshake \/ MsgCommand \/ MsgOther \/ MsgScanRun \/ ScanGive \/ ScanClear

SpecMsg == InitMsg /\ [][NextMsg]_vars

\* ---- the credentials alone: submissions of every length up to the bounds

MaxSsid == 34
MaxPwd  == 66

\* the first text is a submission
CredSubmit ==
    /\ nmsg = 0
    /\ nmsg' = nmsg + 1
    /\ \E a \in 0..MaxSsid, b \in 0..MaxPwd :
          LET m == [json |-> TRUE, scan |-> [kind |-> "absent", val |-> ""],
                    ssid |-> Str(SsidOf(a)), password |-> Str(PwdOf(b))]
          IN  /\ ws_receive_handle(m, TRUE, TRUE)
              /\ lastMsg' = m
    /\ UNCHANGED <<mgrVars, drvVars, wsVars, runVars, ipVars, provHist, ncall>>
    /\ UNCHANGED <<bitSrc, taskVars, hVars, frameVars, lastPeer, apCfg, scanList,
                   cbVars>>

NextCred == CredSubmit

SpecCred == InitMsg /\ [][NextCred]_vars

-----------------------------------------------------------------------------
(* Properties of the link manager (SpecMgr) *)

\* C8: in the component manager and in part_002, every step that handles an
\* address acquisition leaves the retry counter at 0, and the step that
\* handles the first disconnect event after an address acquisition leaves it
\* at exactly 1.
C8_CounterAfterAddress ==
    [][ /\ MgrEvGotIp => sta_connect_count' = 0
        /\ (MgrEvDisc /\ gotIpSeen /\ discSinceIp = 0) => sta_connect_count' = 1
      ]_vars

\* an established link was lost and the disconnect event, the first since
\* the address acquisition, has been handled
C8_Witness ==
    /\ gotIpSeen /\ discSinceIp = 1
    /\ sta_connect_count = 1
    /\ losses = 1

C18_ApIdempotent ==
    [][ MgrAp => /\ mode' = "APSTA"
                 /\ apCfg' = FixedAp
                 /\ mode = "APSTA" => UNCHANGED <<mode, apCfg>>
      ]_vars

\* part_002: wifi_manager_ap was called twice and nothing else, the second
\* time with the radio already in access-point+client mode
C18_Witness ==
    /\ mgr = "main" /\ mode = "APSTA" /\ apCfg = FixedAp
    /\ ncall = 2 /\ connectFrom = {}

-----------------------------------------------------------------------------
(* Properties of the transport channel (SpecWs) *)

\* C10: a ws_server_send step taken while no peer is tracked (socket_fd < 0)
\* returns ESP_FAIL and adds no transport write.
C10_SendWithoutPeer ==
    [][ (WsSend /\ socket_fd < 0) => (sendRet' = "ESP_FAIL" /\ writes' = writes) ]_vars

\* a send was refused after a peer had been tracked and the channel stopped
C10_Witness ==
    /\ sendRet = "ESP_FAIL"
    /\ lastPeer > 0 /\ socket_fd < 0 /\ ~server_handle
    /\ writes # <<>>

-----------------------------------------------------------------------------
(* Properties of the scan (SpecScan) *)

HoldsLock(i) == scanPc[i] \in {"run", "give"}
Calls(i)     == Len(SelectSeq(delivered, LAMBDA d : d[1] = i))

\* C3: at most one scan task holds the scan lock at any time, and a
\* wifi_manager_scan step taken while the lock is held returns
\* ESP_ERR_INVALID_STATE, starts no task and leaves the scan in flight, its
\* result and the callbacks made so far as they were.
C3_OneScanAtATime ==
    /\ [](Cardinality({i \in DOMAIN scanPc : HoldsLock(i)}) <= 1)
    /\ [][ (ScanCall /\ ~scan_semaphore) =>
             /\ scanRet' = "ESP_ERR_INVALID_STATE"
             /\ UNCHANGED <<scan_semaphore, scan_task_handle, scanPc, scanRes, delivered>>
       ]_vars

\* a request was refused while a scan was in flight, and that scan has
\* since delivered its list to its own callback
C3_Witness ==
    /\ scanRet = "ESP_ERR_INVALID_STATE"
    /\ Len(scanPc) = 1 /\ scanPc[1] = "done" /\ ncall >= 2
    /\ delivered = << <<1, "list">> >>

\* C4 (as stated): every accepted request whose scan task has released the
\* scan lock has had its callback invoked exactly once, whatever the driver
\* scan produced.
C4_CallbackExactlyOnce ==
    \A i \in DOMAIN scanPc :
        scanPc[i] \in {"clear", "done"} => Calls(i) = 1

\* C30 (as stated): in part_002 a wifi_manager_scan step returns
\* ESP_ERR_INVALID_STATE only when it finds the scan lock held; taken after
\* the finishing scan task released the lock, whatever steps that task has
\* left, it is refused only for lack of memory.
C30_BusyOnlyWhileLocked ==
    [][ (ScanCall /\ mgr = "main" /\ scanRet' = "ESP_ERR_INVALID_STATE") =>
          ~scan_semaphore
      ]_vars

\* C24 (as stated): whatever requests were accepted or rejected, the scan
\* lock is not held for ever: as long as the program has not stopped on the
\* null task context, the lock is available again and again, so that a
\* retried request is accepted.
C24_BusyTransient == []<>(scan_semaphore \/ scanRet = "panic")

-----------------------------------------------------------------------------
(* Properties of the provisioning system (Spec) *)

TaskStep ==
    \/ TaskWait \/ TaskConnect \/ TaskFailPush \/ TaskFailClear \/ TaskSuccIp
    \/ TaskSuccPush \/ TaskSuccClear \/ TaskSuccDelay \/ TaskSuccWsStop
    \/ TaskSuccApStop

Pushes(status) == Len(SelectSeq(sent, LAMBDA r : r.status = status))

\* a status reply counts for a submission when it names it or when it
\* answers the terminal event of an attempt made with its name
Replied(s) == \E i \in 1..Len(sent) : sent[i].ssid = s \/ sent[i].src = s

Settled == pc = "wait" /\ hpc = "idle" /\ bits = {} /\ evq = <<>>

\* C1 (as stated): whenever no handler, task step or event is under way, the
\* configuring flag is true if and only if some accepted submission has had
\* no 'connected' or 'failed' reply reported for it.
C1_ConfiguringIffOutstanding ==
    Settled => (is_configuring <=> \E s \in accepted : ~Replied(s))

FailPending ==
    IF "FAIL" \in bits \/ ("FAIL" \in taskBits /\ pc \in {"connect", "fail_push"})
    THEN 1 ELSE 0

SuccessOrder == <<"push", "clear", "delay", "ws_stop", "ap_stop">>

\* C5: the success handling runs only for a SUCCESS bit the task took, its
\* steps so far are always an initial part of push, clear, delay, channel
\* stop, access-point stop; the channel goes down only as the fourth of
\* them, the radio leaves access-point+client mode only as the fifth, and
\* that step leaves the radio in client-only mode.
C5_SuccessOrder ==
    /\ [](/\ Len(opLog) <= Len(SuccessOrder)
          /\ opLog = SubSeq(SuccessOrder, 1, Len(opLog))
          /\ opLog # <<>> => "SUCCESS" \in taskBits)
    /\ [][ /\ (server_handle /\ ~server_handle') =>
                 opLog' = SubSeq(SuccessOrder, 1, 4)
           /\ (mode = "APSTA" /\ mode' # "APSTA") => opLog' = SuccessOrder
           /\ TaskSuccApStop => (mode' = "STA" /\ opLog' = SuccessOrder)
       ]_vars

\* a success was handled to the end for a configuring session
C5_Witness ==
    /\ opLog = SuccessOrder /\ pc = "wait"
    /\ Pushes("connected") = 1 /\ sent[Len(sent)].ip = "addr"
    /\ ~is_configuring /\ ~server_handle /\ socket_fd = -1 /\ mode = "STA"

\* C6: the two steps that handle a FAIL bit push one 'failed' reply and set
\* configuring to false; neither changes the radio mode, the manager, the
\* driver, the channel or its tracked peer, or the stored credentials.
C6_FailedFrame ==
    [][ /\ TaskFailPush =>
             /\ Len(sent') = Len(sent) + 1
             /\ sent'[Len(sent')].status = "failed"
             /\ UNCHANGED <<is_configuring, mgrVars, drvVars, credVars,
                            server_handle, socket_fd>>
        /\ TaskFailClear =>
             /\ ~is_configuring'
             /\ UNCHANGED <<sent, writes, mgrVars, drvVars, credVars,
                            server_handle, socket_fd>>
      ]_vars

\* after a 'failed' reply for the first submission the same peer sent a
\* second one, which was accepted and started a new connect cycle
C6_Witness ==
    /\ Len(sent) = 1 /\ sent[1].status = "failed" /\ sent[1].ssid = 1
    /\ accepted = {1, 2} /\ staCfg = <<2, 2>> /\ staLink = "connecting"
    /\ is_configuring /\ mode = "APSTA" /\ server_handle /\ socket_fd = 1

\* C7 (as stated): every step that changes the stored credentials or the
\* configuring flag is a step of the coordinator task.
C7_OnlyTaskWritesSession ==
    [][ (<<current_ssid, current_password, is_configuring>>' #
         <<current_ssid, current_password, is_configuring>>) => TaskStep ]_vars

-----------------------------------------------------------------------------
(* Properties of the tracked peer (SpecWs) *)

\* C15: a single socket is tracked; a handshake makes the tracked peer the
\* connection it arrived on, whatever was tracked before; a push is written
\* to the socket of the most recent handshake and to no other.
C15_LatestPeerOnly ==
    [][ /\ socket_fd' \in {-1} \cup (1..MaxConn)
        /\ WsAccept => socket_fd' \in open' \ open /\ socket_fd' = lastPeer'
        /\ WsSend => \/ writes' = writes
                     \/ \E payload \in Payloads :
                           writes' = Append(writes, <<lastPeer, payload>>)
      ]_vars

\* a push went to the first peer, then a second peer connected while the
\* first connection stayed open, and a push went to the second
C15_Witness ==
    /\ open = {1, 2} /\ socket_fd = 2
    /\ \E i, j \in 1..Len(writes) : i < j /\ writes[i][1] = 1 /\ writes[j][1] = 2

-----------------------------------------------------------------------------
(* Properties of the frame handler (SpecFrame) *)

\* the sink was called for data frame id
SinkCalled(id) == \E i \in 1..Len(sinkCalls) : sinkCalls[i].id = id

\* C11: the length query consumes no payload and reports the declared
\* length; the read happens only after it succeeded, into a buffer of one
\* byte more than that length, and consumes no more than that length; the
\* text the sink gets for a frame is its payload followed by a terminator,
\* with the declared length.
C11_TwoPhaseRead ==
    /\ fpc = "len" => frame.consumed = 0 /\ buf = <<>>
    /\ fpc \in {"alloc", "read"} =>
          ws_pkt_len = frame.len /\ frame.consumed = 0 /\ err = "ESP_OK"
    /\ fpc \in {"read", "deliver", "free"} =>
          Len(buf) = frame.len + 1 /\ frame.consumed <= frame.len
    /\ \A i \in 1..Len(sinkCalls) :
          sinkCalls[i].id = nframe =>
             /\ frame.consumed = frame.len
             /\ sinkCalls[i].text = frame.payload \o <<0>>
             /\ sinkCalls[i].len = frame.len

C11_Witness ==
    /\ fpc = "free" /\ SinkCalled(nframe)
    /\ frame.len > 1 /\ frame.payload = <<1, 2>>

\* C12: when the buffer cannot be allocated the sink is not called, the
\* tracked peer and the server are unchanged, the handler returns success
\* and the connection of the frame stays open.
C12_AllocFailureKeepsPeer ==
    [][ FrameAlloc /\ fpc' = "idle" =>
           /\ ~SinkCalled(nframe)
           /\ UNCHANGED <<socket_fd, server_handle, sinkCalls>>
           /\ hret' = "ESP_OK"
           /\ frame.fd \in open'
      ]_vars

\* C13: when the read of the payload fails, the sink is not called for the
\* frame, the buffer is released, the handler returns success and the
\* connection of the frame stays open.
C13_ReadFailureAbsorbed ==
    [][ FrameFree /\ err # "ESP_OK" =>
           /\ ~SinkCalled(nframe)
           /\ buf # <<>> /\ buf' = <<>>
           /\ hret' = "ESP_OK"
           /\ frame.fd \in open'
      ]_vars

C13_Witness ==
    /\ fpc = "idle" /\ err = "ESP_FAIL" /\ hret = "ESP_OK" /\ buf = <<>>
    /\ frame.consumed < frame.len /\ frame.fd \in open /\ ~SinkCalled(nframe)

\* C14: when the handler finishes a frame, the sink was called for it
\* exactly if the read succeeded and the frame is a text frame; for a frame
\* of another type nothing was written to a peer and the handler returns
\* success.
C14_TextOnly ==
    [][ FrameFree =>
           /\ SinkCalled(nframe) <=> (err = "ESP_OK" /\ frame.type = "TEXT")
           /\ frame.type # "TEXT" =>
                 /\ ~SinkCalled(nframe)
                 /\ writes = <<>> /\ writes' = <<>>
                 /\ hret' = "ESP_OK" /\ frame.fd \in open'
      ]_vars

C14_Witness ==
    /\ fpc = "idle" /\ hret = "ESP_OK" /\ err = "ESP_OK"
    /\ frame.type = "BINARY" /\ frame.consumed = frame.len /\ frame.len > 0
    /\ ~SinkCalled(nframe) /\ SinkCalled(nframe - 1)

-----------------------------------------------------------------------------
(* Properties of the message sink and the scan reply (SpecCred, SpecMsg) *)

\* st is what an array of size bytes holds for the submitted string s: the
\* longest prefix of s that leaves room for the terminator, then the
\* terminator, and nothing past the end of the array
StoredFrom(st, s, size) ==
    /\ Len(st) \in 1..size
    /\ st[Len(st)] = 0
    /\ \A i \in 1..(Len(st) - 1) : i <= Len(s) /\ st[i] = s[i]
    /\ Len(st) - 1 = Len(s) \/ (Len(st) = size /\ Len(s) >= size)

\* C17: after a submission the stored ssid is at most 32 bytes and the
\* stored password at most 64 bytes, each a prefix of the submitted string
\* followed by a terminator, within the 33 and 65 bytes of their arrays.
C17_CredentialsTruncated ==
    nmsg > 0 =>
       /\ StoredFrom(current_ssid, lastMsg.ssid.val, 33)
       /\ StoredFrom(current_password, lastMsg.password.val, 65)
       /\ Len(current_ssid) - 1 <= 32
       /\ Len(current_password) - 1 <= 64

\* both submitted strings were longer than their arrays
C17_Witness ==
    /\ nmsg > 0
    /\ Len(lastMsg.ssid.val) > 33 /\ Len(current_ssid) = 33
    /\ Len(lastMsg.password.val) > 65 /\ Len(current_password) = 65

\* C19: a text that is no command starts no scan, raises no event bit,
\* writes nothing to the peer and leaves the stored credentials and the
\* configuring flag as they were.
C19_UnrecognizedDropped ==
    [][ MsgOther => UNCHANGED <<scanVars, bits, writes, credVars, is_configuring>> ]_vars

\* two texts were handled with a peer connected and nothing has happened
C19_Witness ==
    /\ nmsg = 2 /\ socket_fd >= 0
    /\ scanRet = "none" /\ scanPc = <<>> /\ bits = {} /\ writes = <<>>
    /\ current_ssid = <<0>> /\ ~is_configuring

\* C20: when the scan task calls wifi_scan_handle with n records and a peer
\* is tracked, one reply is written to it; the reply has n entries, entry i
\* with the name and the rssi of record i and encrypted exactly when the
\* record's authmode is not open; this includes n = 0.
C20_ScanReply ==
    [][ (MsgScanRun /\ delivered' # delivered /\ socket_fd >= 0) =>
           /\ Len(writes') = Len(writes) + 1
           /\ LET w == writes'[Len(writes')]
                  ap == scanList'
              IN  /\ w[1] = socket_fd
                  /\ Len(w[2].wifi_list) = Len(ap)
                  /\ \A i \in 1..Len(ap) :
                        /\ w[2].wifi_list[i].ssid = ap[i].ssid
                        /\ w[2].wifi_list[i].rssi = ap[i].rssi
                        /\ w[2].wifi_list[i].encrypted = (ap[i].authmode # "OPEN")
      ]_vars

-----------------------------------------------------------------------------
(* Properties of the link manager with its state callback (SpecLink) *)

\* the event handler has handled an address acquisition and no disconnect
\* event after it
AddressHeld == gotIpSeen /\ discSinceIp = 0

\* C21: a wifi_manager_get_ip step returns ESP_OK, with the address in the
\* caller's buffer, only if the event handler has handled an address
\* acquisition and no disconnect event since; in every other state it
\* returns ESP_FAIL and leaves the caller's buffer as it was.
C21_AddressOnlyWhileConnected ==
    [][ LinkGetIp =>
          /\ ipRet' = "ESP_OK" => (AddressHeld /\ ip_str' = "addr")
          /\ ~AddressHeld => (ipRet' = "ESP_FAIL" /\ ip_str' = ip_str)
      ]_vars

\* an address was read, the link was lost, and a later call failed and
\* left the address of the earlier call in the buffer
C21_Witness ==
    /\ ipRet = "ESP_FAIL" /\ ip_str = "addr"
    /\ gotIpSeen /\ discSinceIp = 1 /\ ~is_sta_connected

\* C23: a step of the event handler calls the registered user callback
\* once for each state it reports to the state callback (Connected on an
\* address acquisition; Disconnected and ConnectFailed on a disconnect
\* event), in the order reported and with the same state, and makes no
\* other call of it, whether is_configuring is true or false.
C23_ForwardedOnce ==
    [][ /\ LinkEvDisc  => userCb' = StateReports("DISC")
        /\ LinkEvGotIp => userCb' = StateReports("GOT_IP")
      ]_vars

\* the component manager reported ConnectFailed while is_configuring was
\* false, after an established link was lost and reported
C23_Witness ==
    /\ mgr = "comp" /\ ~is_configuring /\ bits = {}
    /\ userCb = <<"CONNECT_FAIL">>
    /\ gotIpSeen /\ discSinceIp = 2 /\ losses = 1

\* C25 (as stated): with the manager of part_002 and the state callback of
\* ap_wifi.c, the step that handles a disconnect event once the retry
\* counter has reached MAX_CONNECT_RETRY issues no connection attempt,
\* reports ConnectFailed to the state callback and, while is_configuring is
\* true, raises the FAIL bit on which the coordinator task pushes the
\* 'failed' reply and clears is_configuring.
C25_ExhaustionReported ==
    [][ (LinkEvDisc /\ mgr = "main" /\ sta_connect_count = MAX_CONNECT_RETRY) =>
          /\ staLink' = staLink
          /\ \E i \in DOMAIN StateReports("DISC") :
                 StateReports("DISC")[i] = "CONNECT_FAIL"
          /\ is_configuring => "FAIL" \in bits'
      ]_vars

-----------------------------------------------------------------------------
(* Properties of link events and the coordinator (Spec) *)

\* C22: a step of the event handler taken while is_configuring is false
\* leaves the event group, the coordinator task, the flag, the transport
\* channel, the radio mode and the status replies as they were; a terminal
\* bit is raised only while is_configuring is true; and a status reply is
\* pushed, the channel stopped or the access point stopped only by the
\* coordinator task handling a terminal bit it has taken.
C22_IdleEventInert ==
    [][ /\ ((EvDisc \/ EvGotIp \/ EvStaStart) /\ ~is_configuring) =>
              UNCHANGED <<coordVars, wsVars, mode, sent, opLog>>
        /\ (\E b \in Terminal : b \in bits' /\ b \notin bits) => is_configuring
        /\ sent' # sent =>
              \/ pc = "fail_push" /\ "FAIL" \in taskBits
              \/ pc = "succ_push" /\ "SUCCESS" \in taskBits
        /\ (server_handle /\ ~server_handle') => (pc = "succ_ws" /\ "SUCCESS" \in taskBits)
        /\ (mode = "APSTA" /\ mode' # "APSTA") => (pc = "succ_ap" /\ "SUCCESS" \in taskBits)
      ]_vars

\* the link came up and was lost before any submission, while the channel
\* was running: both events were delivered with is_configuring false
C22_Witness ==
    /\ accepted = {} /\ ~is_configuring
    /\ losses = 1 /\ discRun = 1 /\ evq = <<>>
    /\ server_handle /\ mode = "APSTA" /\ socket_fd > 0
    /\ bits = {} /\ pc = "wait" /\ sent = <<>>

\* C26 (as stated): every status reply pushed names the submission whose
\* connect attempt produced the event it answers: a 'connected' reply
\* answers an address acquisition, a 'failed' reply a retry exhaustion, of
\* an attempt that wifi_manager_connect issued with the credentials of the
\* submission named in the reply; in particular no reply answers an event
\* of an attempt issued before the submission was accepted.
C26_ReplyFromOwnAttempt ==
    \A i \in 1..Len(sent) :
        /\ sent[i].ssid \in accepted
        /\ sent[i].src = sent[i].ssid

-----------------------------------------------------------------------------
(* Properties of the main-tree managers (SpecMgr, SpecDraft) *)

\* C27 (as stated): with the manager of part_002, a wifi_manager_connect
\* step taken in access-point+client mode, as the coordinator task of
\* ap_wifi.c takes it for a submission, leaves the radio in that mode, and
\* the radio leaves that mode only once a 'connected' reply has been pushed.
C27_ApKeptDuringAttempt ==
    [][ /\ (MgrConnect /\ mgr = "main" /\ mode = "APSTA") => mode' = "APSTA"
        /\ (mgr = "main" /\ mode = "APSTA" /\ mode' # "APSTA") =>
              Pushes("connected") > 0
      ]_vars

\* C28 (as stated): a wifi_manager_ap step of the draft manager taken in
\* client-only mode leaves the radio in access-point+client mode with the
\* fixed access-point parameters configured.
C28_DraftApStarts ==
    [][ (MgrAp /\ mgr = "draft" /\ mode = "STA") =>
          (mode' = "APSTA" /\ apCfg' = FixedAp)
      ]_vars

\* C29 (as stated): a wifi_manager_scan step of the draft manager that
\* starts no scan task leaves the scan lock available, whether it comes
\* between the lock release and the handle reset of a finishing scan task,
\* or finds no memory for the context or the task.
C29_DraftScanKeepsLock ==
    [][ (ScanCall /\ mgr = "draft" /\ scanPc' = scanPc) =>
          (scan_semaphore' \/ \E i \in DOMAIN scanPc : scanPc[i] \in {"run", "give"})
      ]_vars

-----------------------------------------------------------------------------
(* Properties of the session of the coordinator (Spec, SpecLive) *)

\* C31: in every reachable state of the component manager the retry counter
\* is at least 0 and at most max_retry, and it equals the number of
\* automatic attempts the event handler has issued since the counter was
\* last set to 0 by wifi_manager_connect or by an address acquisition.
C31_CounterCountsRetries ==
    /\ 0 <= sta_connect_count /\ sta_connect_count <= max_retry
    /\ sta_connect_count = autoRun

\* the attempt for the second submission has used up its retries after the
\* first submission had done the same
C31_Witness ==
    /\ staCfg = <<2, 2>> /\ Pushes("failed") >= 1
    /\ sta_connect_count = max_retry /\ autoRun = max_retry
    /\ discRun = max_retry + 1 /\ staLink = "idle"

\* C32 (as stated): at most one status reply is ever pushed that names a
\* given submission, so that no submission is answered by both 'connected'
\* and 'failed' or by the same status twice.
C32_OneReplyPerSubmission ==
    \A s \in Subs : Len(SelectSeq(sent, LAMBDA r : r.ssid = s)) <= 1

\* C33 (as stated): a status reply that answers the terminal event of an
\* attempt made with the credentials of a submission carries the name of
\* that submission, whatever was stored since.
C33_ReplyNamesAttempt ==
    \A i \in 1..Len(sent) :
        sent[i].src \in Subs => sent[i].ssid = sent[i].src

\* C34 (as stated): the name and the secret the station is configured with
\* by wifi_manager_connect come from one and the same submission.
C34_CredentialsFromOneSubmission == staCfg[1] = staCfg[2]

\* Spec with its tasks scheduled fairly: the coordinator task, the event
\* loop and the message handler take their next step when they have one, and
\* the driver answers an attempt in flight
SpecLive ==
    /\ Spec
    /\ WF_vars(TaskStep)
    /\ WF_vars(EvDisc \/ EvGotIp \/ EvStaStart)
    /\ WF_vars(HPwd \/ HCfg \/ HBit)
    /\ WF_vars(DrvFail \/ DrvGotIp)

\* C35 (as stated): every accepted submission is eventually answered by a
\* status reply for it, with is_configuring false.
C35_EverySubmissionAnswered ==
    \A s \in Subs : (s \in accepted) ~> (Replied(s) /\ ~is_configuring)

-----------------------------------------------------------------------------
(* Properties of the message sink as a dispatcher (SpecMsg) *)

\* C36 (as stated): no single call of ws_receive_handle both starts a scan
\* and accepts a connect submission.
C36_OneCommandPerMessage ==
    [][ (MsgCommand \/ MsgOther) =>
          ~ (/\ Len(scanPc') = Len(scanPc) + 1
             /\ ~is_configuring /\ is_configuring')
      ]_vars

-----------------------------------------------------------------------------
(* ws_server_send and ws_server_stop statement by statement.  The scan     *)
(* task (xTaskCreate, priority 5, no core affinity) sends from             *)
(* wifi_scan_handle, wifi_provision_task (core 1) stops the server; the    *)
(* channel takes no lock, so the statements of the two calls interleave.   *)
(* pc is the position of the stopping task, scanPc the position of the     *)
(* sending task; an entry of writes carries, as third component, what      *)
(* server_handle referred to when httpd_ws_send_data was called.           *)

\* what server_handle refers to: NULL, the server httpd_stop has already
\* torn down, or the running server
HandleOf ==
    IF ~server_handle THEN "NULL"
    ELSE IF pc = "ws_null" THEN "stopped" ELSE "running"

\* what httpd_ws_send_data can return; on a handle that is not a running
\* server its behaviour is not defined
SendOutcomes ==
    IF HandleOf = "running" THEN {"ESP_OK", "ESP_ERR"}
    ELSE {"ESP_OK", "ESP_ERR", "fault"}

\* handshake of a peer with the running server
RaceAccept ==
    /\ HandleOf = "running"
    /\ WsAccept

\* ws_server_send: if (socket_fd < 0) return ESP_FAIL;
RaceSendCheck ==
    /\ ncall < MaxWsCall
    /\ ncall' = ncall + 1
    /\ scanPc \in {<<>>, <<"give">>}
    /\ IF SendRefused(socket_fd)
       THEN /\ sendRet' = "ESP_FAIL"
            /\ scanPc' = <<"give">>
       ELSE /\ scanPc' = <<"send">>
            /\ UNCHANGED sendRet
    /\ UNCHANGED <<server_handle, socket_fd, writes>>
    /\ UNCHANGED <<scan_semaphore, scan_task_handle, scanRes, scanRet, delivered>>
    /\ UNCHANGED <<mgrVars, drvVars, coordVars, runVars, ipVars, provHist, auxVars>>

\* ws_server_send: httpd_ws_send_data(server_handle, socket_fd, &ws_pkt)
RaceSendWrite ==
    /\ scanPc = <<"send">>
    /\ \E payload \in Payloads :
          writes' = Append(writes, <<socket_fd, payload, HandleOf>>)
    /\ \E r \in SendOutcomes : sendRet' = r
    /\ scanPc' = <<"give">>
    /\ UNCHANGED <<server_handle, socket_fd>>
    /\ UNCHANGED <<scan_semaphore, scan_task_handle, scanRes, scanRet, delivered>>
    /\ UNCHANGED <<mgrVars, drvVars, coordVars, runVars, ipVars, provHist, ncall,
                   auxVars>>

\* ws_server_stop: if (server_handle) httpd_stop(server_handle);
RaceStopHttpd ==
    /\ pc = "wait"
    /\ ncall < MaxWsCall
    /\ ncall' = ncall + 1
    /\ IF server_handle
       THEN /\ open' = {}
            /\ pc' = "ws_null"
       ELSE UNCHANGED <<open, pc>>
    /\ UNCHANGED <<mgrVars, drvVars, credVars, is_configuring, evVars, taskBits, ip_str,
                   taskSrc, hVars, wsVars, scanVars, runVars, ipVars, provHist>>
    /\ UNCHANGED <<fpc, frame, ws_pkt_len, err, buf, hret, sinkCalls, nframe,
                   lastPeer, apCfg, msgVars, cbVars>>

\* ws_server_stop: server_handle = NULL;
RaceStopNull ==
    /\ pc = "ws_null"
    /\ server_handle' = FALSE
    /\ pc' = "ws_fd"
    /\ UNCHANGED <<socket_fd, sendRet, writes>>
    /\ UNCHANGED <<mgrVars, drvVars, credVars, is_configuring, evVars, taskBits, ip_str,
                   taskSrc, hVars, scanVars, runVars, ipVars, provHist, ncall, auxVars>>

\* ws_server_stop: socket_fd = -1;
RaceStopFd ==
    /\ pc = "ws_fd"
    /\ socket_fd' = StoppedPeer(socket_fd)
    /\ pc' = "wait"
    /\ UNCHANGED <<server_handle, sendRet, writes>>
    /\ UNCHANGED <<mgrVars, drvVars, credVars, is_configuring, evVars, taskBits, ip_str,
                   taskSrc, hVars, scanVars, runVars, ipVars, provHist, ncall, auxVars>>

NextRace ==
    \/ RaceAccept \/ PeerClose
    \/ RaceSendCheck \/ RaceSendWrite
    \/ RaceStopHttpd \/ RaceStopNull \/ RaceStopFd

SpecRace == InitFrame /\ [][NextRace]_vars

\* C37: no transport write is ever issued with an invalidated server handle
\* or peer identifier: every call of httpd_ws_send_data made by
\* ws_server_send is given the running server and a peer identifier that is
\* not the "no peer" value, however ws_server_stop interleaves with it.
C37_WriteOnlyOnLiveChannel ==
    \A i \in 1..Len(writes) : writes[i][3] = "running" /\ writes[i][1] >= 0

-----------------------------------------------------------------------------
(* The address carried by the replies of the coordinator (Spec) *)

\* the status replies written to the transport: <<status, name, address>>
StatusWrites == SelectSeq(writes, LAMBDA w : w[2][1] \in {"connected", "failed"})

\* C38: every 'connected' status reply carries the non-empty address obtained
\* from the network, also when a disconnect event is handled between the
\* address-acquisition event and the task's handling of the SUCCESS bit; no
\* reply with status 'connected' is sent with an empty address.
C38_ConnectedCarriesAddress ==
    \A i \in 1..Len(StatusWrites) :
        StatusWrites[i][2][1] = "connected" => StatusWrites[i][2][3] = "addr"

-----------------------------------------------------------------------------
(* The credentials on their way to the radio in the main-tree sources:     *)
(* ws_receive_handle of ap_wifi.c stores them, ap_wifi_task hands the two  *)
(* buffers to wifi_manager_connect, which copies them into wifi_config.    *)

\* the C string held by the terminated byte array a
CStr(a) == SubSeq(a, 1, (CHOOSE k \in 1..Len(a) :
                            a[k] = 0 /\ \A j \in 1..(k - 1) : a[j] # 0) - 1)

\* the size arguments of the two snprintf calls of wifi_manager_connect
ConnectSsidSize == 31
ConnectPwdSize  == 63

\* wifi_manager_connect(ssid, password) of part_002 and of main/wifi_manager.c
wifi_manager_connect_str(ssid, password, post) ==
    wifi_manager_connect(snprintf(ConnectSsidSize, CStr(ssid)),
                         snprintf(ConnectPwdSize, CStr(password)), post)

\* ap_wifi_task woken by the CONNECTED bit alone
RadioConnect ==
    /\ pc = "wait"
    /\ bits = {"CONNECTED"}
    /\ bits' = {}
    /\ ncall' = ncall + 1
    /\ \E post \in BOOLEAN :
          wifi_manager_connect_str(current_ssid, current_password, post)
    /\ UNCHANGED <<credVars, is_configuring, bitSrc, taskVars, hVars>>
    /\ UNCHANGED <<wsVars, scanVars, runVars, ipVars, provHist, auxVars>>

InitRadio ==
    /\ InitState
    /\ server_handle = TRUE
    /\ current_ssid = <<0>> /\ current_password = <<0>>
    /\ mgr \in {"main", "draft"}
    /\ evq = <<>>

NextRadio == CredSubmit \/ RadioConnect

SpecRadio == InitRadio /\ [][NextRadio]_vars

\* C39: in the main-tree managers the ssid and the secret that
\* wifi_manager_connect configures into the radio equal the stored
\* credentials in full, for every stored length (ssid up to 32 bytes,
\* secret up to 64 bytes): connect cuts nothing off what the storage holds.
C39_ConnectConfiguresStored ==
    ncall > 0 =>
       /\ CStr(staCfg[1]) = CStr(current_ssid)
       /\ CStr(staCfg[2]) = CStr(current_password)

====
